---- MODULE Spec2Model ----
(***************************************************************************)
(* video_channel::impl: the channel loop thread (produce / mix / consume), *)
(* the route registry, the timecode listener registry, the format setter   *)
(* and the destructor, as a state machine.                                 *)
(***************************************************************************)
EXTENDS Integers, Sequences, FiniteSets, TLC

\* ------------------------------------------------------------------ bounds
MaxTicks == 1
MaxCalls == 4
CadenceTicks == 6
CadenceCalls == 2
LiveTicks == 2
LiveCalls == 3
AllTicks == 2
AllCalls == 2
MaxRoutes == 2
MaxRefs == 2
MaxListeners == 2
MaxFormatChanges == 1

\* ------------------------------------------------------------ value spaces
Formats == {"PAL", "NTSC"}
InitialFormat == "NTSC"
Layers == {0, 1}
ChannelRoute == 0 - 1
RouteKeys == Layers \cup {ChannelRoute}
\* the ids callers ask a route for: layer 1 stays without a route
RequestedKeys == {ChannelRoute, 0}
NoRoute == 0
RouteIds == 1..(MaxRoutes + 1)
ListenerIds == 0..MaxListeners

\* video_format_desc::audio_cadence of the two formats used
AudioCadence(fd) ==
    IF fd = "PAL" THEN <<1920>> ELSE <<1602, 1601, 1602, 1601, 1602>>

\* the frame the producer on a layer delivers
LayerFrame(k) == IF k = 0 THEN "A" ELSE "B"

\* draw_frame::pop(frame) and draw_frame(std::vector<draw_frame>)
Pop(f) == <<"pop", f>>
Composite(fs) == <<"frames", fs>>

\* mutant: the cadence vector is left as it is
RotateNone(v) == v

\* boost::range::rotate(v, end(v) - 1): the last element becomes the first
Rotate(v) ==
    IF Len(v) = 0 THEN v ELSE <<v[Len(v)]>> \o SubSeq(v, 1, Len(v) - 1)

Min(S) == CHOOSE x \in S : \A y \in S : x <= y

RECURSIVE SeqSum(_)
SeqSum(s) == IF s = <<>> THEN 0 ELSE Head(s) + SeqSum(Tail(s))

IsPrefix(s, t) == Len(s) <= Len(t) /\ SubSeq(t, 1, Len(s)) = s

\* monitor::state::insert_or_assign / operator[]=
InsertOrAssign(st, key, val) == {p \in st : p[1] # key} \cup {<<key, val>>}

\* the order of the steps of one tick, as the specification states it
StepOrder ==
    <<"rotate", "predict", "produce", "commit", "listeners",
      "mix", "consume", "routes", "publish">>

VARIABLES
    \* loop thread
    pc, tickNo, format_desc, nb_samples, stage_frames, timecode,
    listeners, pendingL, frames, remaining, chanHold,
    \* channel fields
    format_desc_, audio_cadence_, formatLock, routes_, routesLock,
    timecode_listeners_, last_timecode_listener_id, abort_request_, state_,
    \* collaborators: channel_timecode and stage
    tcCommitted, tcPredicted, tcFormat, stageLayers, stageClears,
    \* route objects and their holders, listener tokens
    nextRoute, extRefs, routeFd, tokens,
    \* callers: format setter, destructor
    setterPc, new_fd, setLog, dtorPc,
    \* observations of the current tick
    trace, failedAt, prevFailed, invoked, signals, deadAtFan,
    stageCall, mixCall, outCall, published, cbCount, nbHist, snapEpoch, heldAtSnap,
    \* the listeners lock, and whether a lock was taken inside another
    listenersLock, nested,
    \* what callers of state() and video_format_desc() read, and what a
    \* listener did to the listener map from inside its invocation
    stateSeen, fmtSeen, reentry,
    \* exploration budget: caller operations left, ticks allowed
    calls, tickLimit

loopVars == <<pc, tickNo, format_desc, nb_samples, stage_frames, timecode,
              listeners, pendingL, frames, remaining, chanHold>>
fmtVars == <<format_desc_, audio_cadence_, formatLock>>
routeVars == <<routes_, routesLock, nextRoute, extRefs, routeFd>>
lsnVars == <<timecode_listeners_, last_timecode_listener_id, tokens>>
collabVars == <<tcCommitted, tcPredicted, tcFormat, stageLayers, stageClears>>
callerVars == <<setterPc, new_fd, setLog, dtorPc>>
obsVars == <<trace, failedAt, prevFailed, invoked, signals, deadAtFan,
             stageCall, mixCall, outCall, published, cbCount, nbHist,
             snapEpoch, heldAtSnap>>
lockVars == <<listenersLock, nested>>
viewVars == <<stateSeen, fmtSeen, reentry>>
vars == <<loopVars, fmtVars, routeVars, lsnVars, collabVars, callerVars,
          obsVars, lockVars, viewVars, abort_request_, state_, calls,
          tickLimit>>

NoCall == [fd |-> "none", nb |-> 0, tc |-> 0]

\* no caller has read the monitor state yet
NotRead == [at |-> "never", entries |-> {}, pub |-> FALSE]

\* the channel's locks a thread holds; the holder of a lock is "loop" (the
\* channel thread), "setter" or "caller"
LocksHeld(t) ==
    {l \in {"format", "routes", "listeners"} :
        \/ l = "format" /\ formatLock = t
        \/ l = "routes" /\ routesLock = t
        \/ l = "listeners" /\ listenersLock = t}

\* thread t locks one of the channel's locks
Acquire(t) == nested' = (nested \/ LocksHeld(t) # {})

\* a route object is alive while its strong count is positive
Alive(r) == r # NoRoute /\ (extRefs[r] > 0 \/ chanHold = r)

InitWith(nCalls, nTicks) ==
    /\ calls = nCalls /\ tickLimit = nTicks
    /\ pc = "check" /\ tickNo = 0
    /\ format_desc = "none" /\ nb_samples = 0
    /\ stage_frames = <<>> /\ timecode = 0
    /\ listeners = {} /\ pendingL = {}
    /\ frames = <<>> /\ remaining = {} /\ chanHold = NoRoute
    /\ format_desc_ = InitialFormat
    /\ audio_cadence_ = AudioCadence(InitialFormat)
    /\ formatLock = "none"
    /\ routes_ = [k \in RouteKeys |-> NoRoute]
    /\ routesLock = "none"
    /\ timecode_listeners_ = {}
    /\ last_timecode_listener_id = 0
    /\ abort_request_ = FALSE
    /\ state_ = {}
    /\ tcCommitted = 0 /\ tcPredicted = 0 /\ tcFormat = InitialFormat
    /\ stageLayers = {} /\ stageClears = 0
    /\ nextRoute = 0
    /\ extRefs = [r \in RouteIds |-> 0]
    /\ routeFd = [r \in RouteIds |-> "none"]
    /\ tokens = {}
    /\ setterPc = "idle" /\ new_fd = "none" /\ setLog = <<>>
    /\ dtorPc = "idle"
    /\ trace = <<>> /\ failedAt = "none" /\ prevFailed = FALSE
    /\ invoked = <<>> /\ signals = <<>> /\ deadAtFan = {}
    /\ stageCall = NoCall /\ mixCall = NoCall /\ outCall = NoCall
    /\ published = {} /\ cbCount = 0 /\ nbHist = <<>> /\ snapEpoch = 0
    /\ heldAtSnap = {}
    /\ listenersLock = "none" /\ nested = FALSE
    /\ stateSeen = NotRead /\ fmtSeen = "none" /\ reentry = "none"

\* many caller operations around few ticks
Init == InitWith(MaxCalls, MaxTicks)

\* the start of the runs over several ticks, also checked for termination
LiveInit == InitWith(LiveCalls, LiveTicks)

\* the start of the runs with every caller operation
AllInit == InitWith(AllCalls, AllTicks)

\* few caller operations, enough ticks for a whole cadence period
CadenceInit == InitWith(CadenceCalls, CadenceTicks)


\* ------------------------------------------------------------ loop thread
\* a collaborator call returns (TRUE) or raises (FALSE); a failure spends
\* one unit of the exploration budget
Outcomes == IF calls > 0 THEN BOOLEAN ELSE {TRUE}
Spend(ok) == IF ok THEN calls ELSE calls - 1

\* mutant: the handler is outside the while loop, a failure ends the thread
CaughtOutsideLoop(step) == pc' = "done" /\ failedAt' = step

\* catch (...) { CASPAR_LOG_CURRENT_EXCEPTION(); } inside the while loop
Caught(step) == pc' = "check" /\ failedAt' = step

\* the locals of the loop body before an iteration has set them
NoLocals ==
    /\ format_desc' = "none" /\ nb_samples' = 0
    /\ stage_frames' = <<>> /\ timecode' = 0
    /\ listeners' = {} /\ pendingL' = {}
    /\ frames' = <<>> /\ remaining' = {}

\* mutant: the loop condition does not read the abort flag
LoopCheckNoAbort ==
    /\ pc = "check"
    /\ IF FALSE
       THEN /\ pc' = "done"
            /\ UNCHANGED <<tickNo, obsVars, format_desc, nb_samples,
                           stage_frames, timecode, listeners, pendingL,
                           frames, remaining>>
       ELSE /\ tickNo < tickLimit
            /\ pc' = "snapshot"
            /\ tickNo' = tickNo + 1
            /\ NoLocals
            /\ trace' = <<>>
            /\ failedAt' = "none"
            /\ prevFailed' = (failedAt # "none")
            /\ invoked' = <<>> /\ signals' = <<>> /\ deadAtFan' = {}
            /\ stageCall' = NoCall /\ mixCall' = NoCall /\ outCall' = NoCall
            /\ cbCount' = 0
            /\ heldAtSnap' = {}
            /\ UNCHANGED <<published, nbHist, snapEpoch>>
    /\ UNCHANGED <<calls, tickLimit, lockVars, viewVars, chanHold, fmtVars, routeVars, lsnVars,
                   collabVars, callerVars, abort_request_, state_>>

\* while (!abort_request_)
LoopCheck ==
    /\ pc = "check"
    /\ IF abort_request_
       THEN /\ pc' = "done"
            /\ UNCHANGED <<tickNo, obsVars, format_desc, nb_samples,
                           stage_frames, timecode, listeners, pendingL,
                           frames, remaining>>
       ELSE /\ tickNo < tickLimit
            /\ pc' = "snapshot"
            /\ tickNo' = tickNo + 1
            /\ NoLocals
            /\ trace' = <<>>
            /\ failedAt' = "none"
            /\ prevFailed' = (failedAt # "none")
            /\ invoked' = <<>> /\ signals' = <<>> /\ deadAtFan' = {}
            /\ stageCall' = NoCall /\ mixCall' = NoCall /\ outCall' = NoCall
            /\ cbCount' = 0
            /\ heldAtSnap' = {}
            /\ UNCHANGED <<published, nbHist, snapEpoch>>
    /\ UNCHANGED <<calls, tickLimit, lockVars, viewVars, chanHold, fmtVars, routeVars, lsnVars,
                   collabVars, callerVars, abort_request_, state_>>

\* mutant: the tick copies and rotates without taking the format lock
TickSnapshotUnlocked ==
    /\ pc = "snapshot"
    /\ format_desc' = format_desc_
    /\ audio_cadence_' = Rotate(audio_cadence_)
    /\ nb_samples' = Head(audio_cadence_')
    /\ nbHist' = LET h == Append(nbHist, nb_samples')
                 IN  IF Len(h) > Len(audio_cadence_) THEN Tail(h) ELSE h
    /\ snapEpoch' = Len(setLog)
    /\ trace' = Append(trace, "rotate")
    /\ pc' = "clear"
    /\ Acquire("loop")
    /\ UNCHANGED <<calls, tickLimit, listenersLock, viewVars, tickNo, stage_frames, timecode, listeners, pendingL, frames,
                   remaining, chanHold, format_desc_, formatLock, routeVars,
                   lsnVars, collabVars, callerVars, abort_request_, state_,
                   failedAt, prevFailed, invoked, signals, deadAtFan,
                   stageCall, mixCall, outCall, published, cbCount,
                   heldAtSnap>>

\* the scope of lock_guard(format_desc_mutex_): copy, rotate, read the front
TickSnapshot ==
    /\ pc = "snapshot"
    /\ formatLock = "none"
    /\ format_desc' = format_desc_
    /\ audio_cadence_' = Rotate(audio_cadence_)
    /\ nb_samples' = Head(audio_cadence_')
    /\ nbHist' = LET h == Append(nbHist, nb_samples')
                 IN  IF Len(h) > Len(audio_cadence_) THEN Tail(h) ELSE h
    /\ snapEpoch' = Len(setLog)
    /\ trace' = Append(trace, "rotate")
    /\ pc' = "clear"
    /\ Acquire("loop")
    /\ UNCHANGED <<calls, tickLimit, listenersLock, viewVars, tickNo, stage_frames, timecode, listeners, pendingL, frames,
                   remaining, chanHold, format_desc_, formatLock, routeVars,
                   lsnVars, collabVars, callerVars, abort_request_, state_,
                   failedAt, prevFailed, invoked, signals, deadAtFan,
                   stageCall, mixCall, outCall, published, cbCount,
                   heldAtSnap>>

\* mutant: the monitor state is not cleared at the start of the tick
StateClearSkipped ==
    /\ pc = "clear"
    /\ state_' = state_
    /\ pc' = "predict"
    /\ UNCHANGED <<calls, tickLimit, lockVars, viewVars, tickNo, format_desc, nb_samples, stage_frames, timecode,
                   listeners, pendingL, frames, remaining, chanHold, fmtVars,
                   routeVars, lsnVars, collabVars, callerVars, obsVars,
                   abort_request_>>

\* state_.clear()
StateClear ==
    /\ pc = "clear"
    /\ state_' = {}
    /\ pc' = "predict"
    /\ UNCHANGED <<calls, tickLimit, lockVars, viewVars, tickNo, format_desc, nb_samples, stage_frames, timecode,
                   listeners, pendingL, frames, remaining, chanHold, fmtVars,
                   routeVars, lsnVars, collabVars, callerVars, obsVars,
                   abort_request_>>

\* timecode_->tick(false)
Predict ==
    /\ pc = "predict"
    /\ trace' = Append(trace, "predict")
    /\ \E ok \in Outcomes :
          /\ calls' = Spend(ok)
          /\ IF ok
             THEN /\ tcPredicted' = tcCommitted + 1
                  /\ pc' = "produce"
                  /\ UNCHANGED failedAt
             ELSE /\ Caught("predict")
                  /\ UNCHANGED tcPredicted
    /\ UNCHANGED <<tickLimit, lockVars, viewVars, tickNo, format_desc, nb_samples, stage_frames, timecode,
                   listeners, pendingL, frames, remaining, chanHold, fmtVars,
                   routeVars, lsnVars, tcCommitted, tcFormat, stageLayers,
                   stageClears, callerVars, abort_request_, state_,
                   prevFailed, invoked, signals, deadAtFan, stageCall,
                   mixCall, outCall, published, cbCount, nbHist, snapEpoch, heldAtSnap>>

\* stage_frames = (*stage_)(format_desc, nb_samples); state_["stage"]
Produce ==
    /\ pc = "produce"
    /\ trace' = Append(trace, "produce")
    /\ stageCall' = [fd |-> format_desc, nb |-> nb_samples, tc |-> 0]
    /\ \E ok \in Outcomes :
          /\ calls' = Spend(ok)
          /\ IF ok
             THEN /\ stage_frames' = [k \in stageLayers |-> LayerFrame(k)]
                  /\ state_' = InsertOrAssign(state_, "stage", tickNo)
                  /\ pc' = "commit"
                  /\ UNCHANGED failedAt
             ELSE /\ Caught("produce")
                  /\ UNCHANGED <<stage_frames, state_>>
    /\ UNCHANGED <<tickLimit, lockVars, viewVars, tickNo, format_desc, nb_samples, timecode, listeners,
                   pendingL, frames, remaining, chanHold, fmtVars, routeVars,
                   lsnVars, collabVars, callerVars, abort_request_,
                   prevFailed, invoked, signals, deadAtFan, mixCall, outCall,
                   published, cbCount, nbHist, snapEpoch, heldAtSnap>>

\* mutant: the listeners are not invoked after the commit
CommitThenMix ==
    /\ pc = "commit"
    /\ trace' = Append(trace, "commit")
    /\ \E ok \in Outcomes :
          /\ calls' = Spend(ok)
          /\ IF ok
             THEN /\ tcCommitted' = tcCommitted + 1
                  /\ timecode' = tcCommitted'
                  /\ pc' = "invoke"
                  /\ UNCHANGED failedAt
             ELSE /\ Caught("commit")
                  /\ UNCHANGED <<tcCommitted, timecode>>
    /\ UNCHANGED <<tickLimit, lockVars, viewVars, tickNo, format_desc, nb_samples, stage_frames, listeners,
                   pendingL, frames, remaining, chanHold, fmtVars, routeVars,
                   lsnVars, tcPredicted, tcFormat, stageLayers, stageClears,
                   callerVars, abort_request_, state_, prevFailed, invoked,
                   signals, deadAtFan, stageCall, mixCall, outCall, published,
                   cbCount, nbHist, snapEpoch, heldAtSnap>>

\* auto timecode = timecode_->tick(true)
Commit ==
    /\ pc = "commit"
    /\ trace' = Append(trace, "commit")
    /\ \E ok \in Outcomes :
          /\ calls' = Spend(ok)
          /\ IF ok
             THEN /\ tcCommitted' = tcCommitted + 1
                  /\ timecode' = tcCommitted'
                  /\ pc' = "listeners"
                  /\ UNCHANGED failedAt
             ELSE /\ Caught("commit")
                  /\ UNCHANGED <<tcCommitted, timecode>>
    /\ UNCHANGED <<tickLimit, lockVars, viewVars, tickNo, format_desc, nb_samples, stage_frames, listeners,
                   pendingL, frames, remaining, chanHold, fmtVars, routeVars,
                   lsnVars, tcPredicted, tcFormat, stageLayers, stageClears,
                   callerVars, abort_request_, state_, prevFailed, invoked,
                   signals, deadAtFan, stageCall, mixCall, outCall, published,
                   cbCount, nbHist, snapEpoch, heldAtSnap>>

\* mutant: the listeners lock stays locked while the listeners are invoked
ListenersSnapshotHoldsLock ==
    /\ pc = "listeners"
    /\ trace' = Append(trace, "listeners")
    /\ listeners' = timecode_listeners_
    /\ pendingL' = timecode_listeners_
    /\ heldAtSnap' = tokens
    /\ pc' = "invoke"
    /\ listenersLock = "none"
    /\ Acquire("loop")
    /\ listenersLock' = "loop"
    /\ UNCHANGED <<calls, tickLimit, viewVars, tickNo, format_desc, nb_samples, stage_frames, timecode,
                   frames, remaining, chanHold, fmtVars, routeVars, lsnVars,
                   collabVars, callerVars, abort_request_, state_, failedAt,
                   prevFailed, invoked, signals, deadAtFan, stageCall,
                   mixCall, outCall, published, cbCount, nbHist, snapEpoch>>

\* invoke_timecode_listeners: the copy of the map under the listeners lock,
\* which lock(mutex, func) releases when the copy is made
ListenersSnapshot ==
    /\ pc = "listeners"
    /\ trace' = Append(trace, "listeners")
    /\ listeners' = timecode_listeners_
    /\ pendingL' = timecode_listeners_
    /\ heldAtSnap' = tokens
    /\ pc' = "invoke"
    /\ listenersLock = "none"
    /\ Acquire("loop")
    /\ listenersLock' = "none"
    /\ UNCHANGED <<calls, tickLimit, viewVars, tickNo, format_desc, nb_samples, stage_frames, timecode,
                   frames, remaining, chanHold, fmtVars, routeVars, lsnVars,
                   collabVars, callerVars, abort_request_, state_, failedAt,
                   prevFailed, invoked, signals, deadAtFan, stageCall,
                   mixCall, outCall, published, cbCount, nbHist, snapEpoch>>

\* the element a range-for over the std::unordered_map copy yields next:
\* the iteration order of an unordered_map is unspecified
NextListener(pending) == pending

\* mutant: no try / catch around the call of a listener
InvokeListenerNoCatch ==
    /\ pc = "invoke"
    /\ pendingL # {}
    /\ \E id \in NextListener(pendingL) : \E ok \in Outcomes :
          /\ invoked' = Append(invoked, [id |-> id, tc |-> timecode, ok |-> ok])
          /\ pendingL' = pendingL \ {id}
          /\ calls' = Spend(ok)
          /\ IF ok THEN UNCHANGED <<pc, failedAt>> ELSE Caught("listeners")
    /\ UNCHANGED <<tickLimit, lockVars, viewVars, tickNo, format_desc, nb_samples, stage_frames, timecode,
                   listeners, frames, remaining, chanHold, fmtVars, routeVars,
                   lsnVars, collabVars, callerVars, abort_request_, state_,
                   trace, prevFailed, signals, deadAtFan, stageCall,
                   mixCall, outCall, published, cbCount, nbHist, snapEpoch, heldAtSnap>>

\* one iteration of for (auto listener : listeners) with its try / catch
InvokeListener ==
    /\ pc = "invoke"
    /\ pendingL # {}
    /\ \E id \in NextListener(pendingL) : \E ok \in Outcomes :
          /\ invoked' = Append(invoked, [id |-> id, tc |-> timecode, ok |-> ok])
          /\ pendingL' = pendingL \ {id}
          /\ calls' = Spend(ok)
    /\ UNCHANGED <<tickLimit, lockVars, viewVars, pc, tickNo, format_desc, nb_samples, stage_frames, timecode,
                   listeners, frames, remaining, chanHold, fmtVars, routeVars,
                   lsnVars, collabVars, callerVars, abort_request_, state_,
                   trace, failedAt, prevFailed, signals, deadAtFan, stageCall,
                   mixCall, outCall, published, cbCount, nbHist, snapEpoch, heldAtSnap>>

\* one iteration of the range-for whose listener, before it returns, calls
\* add_timecode_listener or drops a token: both lock timecode_listeners_mutex_
\* (a tbb::spin_mutex, not recursive) on the channel thread
InvokeListenerReentrant ==
    /\ pc = "invoke"
    /\ pendingL # {}
    /\ listenersLock = "none"
    /\ Acquire("loop")
    /\ \E id \in NextListener(pendingL) :
          /\ invoked' = Append(invoked, [id |-> id, tc |-> timecode, ok |-> TRUE])
          /\ pendingL' = pendingL \ {id}
    /\ \/ /\ last_timecode_listener_id < MaxListeners
          /\ last_timecode_listener_id' = last_timecode_listener_id + 1
          /\ timecode_listeners_' =
                 timecode_listeners_ \cup {last_timecode_listener_id}
          /\ tokens' = tokens \cup {last_timecode_listener_id}
          /\ reentry' = "add"
       \/ \E d \in tokens :
             /\ tokens' = tokens \ {d}
             /\ timecode_listeners_' = timecode_listeners_ \ {d}
             /\ reentry' = "drop"
             /\ UNCHANGED last_timecode_listener_id
    /\ calls > 0
    /\ calls' = calls - 1
    /\ UNCHANGED <<tickLimit, listenersLock, stateSeen, fmtSeen, pc, tickNo,
                   format_desc, nb_samples, stage_frames, timecode, listeners,
                   frames, remaining, chanHold, fmtVars, routeVars,
                   collabVars, callerVars, abort_request_, state_, trace,
                   failedAt, prevFailed, signals, deadAtFan, stageCall,
                   mixCall, outCall, published, cbCount, nbHist, snapEpoch,
                   heldAtSnap>>

\* mutant: the tick goes on while listeners of the snapshot are still to run
ListenersDoneEarly == TRUE

\* invoke_timecode_listeners returns when its range-for has ended
ListenersDone == pendingL = {}

\* mixer_(stage_frames, format_desc, format_desc.audio_cadence[0]); state_["mixer"]
Mix ==
    /\ pc = "invoke"
    /\ ListenersDone
    /\ trace' = Append(trace, "mix")
    /\ mixCall' = [fd |-> format_desc, nb |-> AudioCadence(format_desc)[1],
                   tc |-> 0]
    /\ \E ok \in Outcomes :
          /\ calls' = Spend(ok)
          /\ IF ok
             THEN /\ state_' = InsertOrAssign(state_, "mixer", tickNo)
                  /\ pc' = "consume"
                  /\ UNCHANGED failedAt
             ELSE /\ Caught("mix")
                  /\ UNCHANGED state_
    /\ UNCHANGED <<tickLimit, lockVars, viewVars, tickNo, format_desc, nb_samples, stage_frames, timecode,
                   listeners, pendingL, frames, remaining, chanHold, fmtVars,
                   routeVars, lsnVars, collabVars, callerVars, abort_request_,
                   prevFailed, invoked, signals, deadAtFan, stageCall, outCall,
                   published, cbCount, nbHist, snapEpoch, heldAtSnap>>

\* output_(timecode, std::move(mixed_frame), format_desc)
Consume ==
    /\ pc = "consume"
    /\ trace' = Append(trace, "consume")
    /\ outCall' = [fd |-> format_desc, nb |-> 0, tc |-> timecode]
    /\ \E ok \in Outcomes :
          /\ calls' = Spend(ok)
          /\ IF ok
             THEN pc' = "fanout" /\ UNCHANGED failedAt
             ELSE Caught("consume")
    /\ UNCHANGED <<tickLimit, lockVars, viewVars, tickNo, format_desc, nb_samples, stage_frames, timecode,
                   listeners, pendingL, frames, remaining, chanHold, fmtVars,
                   routeVars, lsnVars, collabVars, callerVars, abort_request_,
                   state_, prevFailed, invoked, signals, deadAtFan, stageCall,
                   mixCall, published, cbCount, nbHist, snapEpoch, heldAtSnap>>


\* ----------------------------------------------------------- route fan-out
\* std::lock_guard<std::mutex> lock(routes_mutex_); entry of the for loop
FanBegin ==
    /\ pc = "fanout"
    /\ routesLock = "none"
    /\ routesLock' = "loop"
    /\ frames' = <<>>
    /\ remaining' = DOMAIN stage_frames
    /\ deadAtFan' = {r \in 1..nextRoute : ~Alive(r)}
    /\ trace' = Append(trace, "routes")
    /\ pc' = "fan"
    /\ Acquire("loop")
    /\ UNCHANGED <<calls, tickLimit, listenersLock, viewVars, tickNo, format_desc, nb_samples, stage_frames, timecode,
                   listeners, pendingL, chanHold, fmtVars, routes_, nextRoute,
                   extRefs, routeFd, lsnVars, collabVars, callerVars,
                   abort_request_, state_, failedAt, prevFailed, invoked,
                   signals, stageCall, mixCall, outCall, published, cbCount,
                   nbHist, snapEpoch, heldAtSnap>>

\* mutant: the stored pointer is used without the liveness test
UpgradeUnchecked(r) == r

\* it->second.lock(): the weak pointer upgrades only to a living route
Upgrade(r) == IF Alive(r) THEN r ELSE NoRoute

\* for (auto& p : stage_frames): push_back, find, weak upgrade
FanLayer ==
    /\ pc = "fan"
    /\ remaining # {}
    /\ LET k == Min(remaining)
           r == Upgrade(routes_[k])
       IN  /\ frames' = Append(frames, stage_frames[k])
           /\ IF r # NoRoute
              THEN /\ chanHold' = r
                   /\ pc' = "signal"
                   /\ UNCHANGED remaining
              ELSE /\ remaining' = remaining \ {k}
                   /\ UNCHANGED <<chanHold, pc>>
    /\ UNCHANGED <<calls, tickLimit, lockVars, viewVars, tickNo, format_desc, nb_samples, stage_frames, timecode,
                   listeners, pendingL, fmtVars, routeVars, lsnVars,
                   collabVars, callerVars, abort_request_, state_, obsVars>>

\* mutant: the strong reference outlives the signal
KeepHold == chanHold

\* the end of the scope of the local strong reference "route"
ReleaseHold == NoRoute

\* route->signal(draw_frame::pop(p.second))
FanSignal ==
    /\ pc = "signal"
    /\ LET k == Min(remaining)
       IN  \E ok \in Outcomes :
             /\ calls' = Spend(ok)
             /\ IF ok
                THEN /\ signals' = Append(signals,
                           [route |-> chanHold, frame |-> Pop(stage_frames[k])])
                     /\ remaining' = remaining \ {k}
                     /\ chanHold' = ReleaseHold
                     /\ pc' = "fan"
                     /\ UNCHANGED <<routesLock, failedAt>>
                ELSE /\ Caught("routes")
                     /\ chanHold' = NoRoute
                     /\ routesLock' = "none"
                     /\ UNCHANGED <<signals, remaining>>
    /\ UNCHANGED <<tickLimit, lockVars, viewVars, tickNo, format_desc, nb_samples, stage_frames, timecode,
                   listeners, pendingL, frames, fmtVars, routes_, nextRoute,
                   extRefs, routeFd, lsnVars, collabVars, callerVars,
                   abort_request_, state_, trace, prevFailed, invoked,
                   deadAtFan, stageCall, mixCall, outCall, published, cbCount,
                   nbHist, snapEpoch, heldAtSnap>>

\* auto it = routes_.find(-1); weak upgrade
FanAll ==
    /\ pc = "fan"
    /\ remaining = {}
    /\ LET r == Upgrade(routes_[ChannelRoute])
       IN  IF r # NoRoute
           THEN chanHold' = r /\ pc' = "signalall"
           ELSE pc' = "fanend" /\ UNCHANGED chanHold
    /\ UNCHANGED <<calls, tickLimit, lockVars, viewVars, tickNo, format_desc, nb_samples, stage_frames, timecode,
                   listeners, pendingL, frames, remaining, fmtVars, routeVars,
                   lsnVars, collabVars, callerVars, abort_request_, state_,
                   obsVars>>

\* route->signal(core::draw_frame(std::move(frames)))
FanSignalAll ==
    /\ pc = "signalall"
    /\ chanHold' = NoRoute
    /\ \E ok \in Outcomes :
          /\ calls' = Spend(ok)
          /\ IF ok
             THEN /\ signals' = Append(signals,
                        [route |-> chanHold, frame |-> Composite(frames)])
                  /\ pc' = "fanend"
                  /\ UNCHANGED <<routesLock, failedAt>>
             ELSE /\ Caught("routes")
                  /\ routesLock' = "none"
                  /\ UNCHANGED signals
    /\ UNCHANGED <<tickLimit, lockVars, viewVars, tickNo, format_desc, nb_samples, stage_frames, timecode,
                   listeners, pendingL, frames, remaining, fmtVars, routes_,
                   nextRoute, extRefs, routeFd, lsnVars, collabVars,
                   callerVars, abort_request_, state_, trace, prevFailed,
                   invoked, deadAtFan, stageCall, mixCall, outCall, published,
                   cbCount, nbHist, snapEpoch, heldAtSnap>>

\* the closing brace of the fan-out block: routes_mutex_ is released
FanEnd ==
    /\ pc = "fanend"
    /\ routesLock' = "none"
    /\ pc' = "publish"
    /\ UNCHANGED <<calls, tickLimit, lockVars, viewVars, tickNo, format_desc, nb_samples, stage_frames, timecode,
                   listeners, pendingL, frames, remaining, chanHold, fmtVars,
                   routes_, nextRoute, extRefs, routeFd, lsnVars, collabVars,
                   callerVars, abort_request_, state_, obsVars>>

\* timecode.string(): the text of a frame_timecode
TimecodeString(t) == <<"string", t>>

\* mutant: the monitor state gets a timecode predicted anew, not the local
PublishRepredicted ==
    /\ pc = "publish"
    /\ trace' = Append(trace, "publish")
    /\ state_' = InsertOrAssign(InsertOrAssign(InsertOrAssign(state_,
                     "output", tickNo), "timecode", TimecodeString(tcCommitted + 1)),
                     "timecode/source", tickNo)
    /\ pc' = "callback"
    /\ UNCHANGED <<calls, tickLimit, lockVars, viewVars, tickNo, format_desc, nb_samples, stage_frames, timecode,
                   listeners, pendingL, frames, remaining, chanHold, fmtVars,
                   routeVars, lsnVars, collabVars, callerVars, abort_request_,
                   failedAt, prevFailed, invoked, signals, deadAtFan,
                   stageCall, mixCall, outCall, published, cbCount, nbHist,
                   snapEpoch, heldAtSnap>>

\* state_["output"], state_["timecode"], state_["timecode/source"]
Publish ==
    /\ pc = "publish"
    /\ trace' = Append(trace, "publish")
    /\ state_' = InsertOrAssign(InsertOrAssign(InsertOrAssign(state_,
                     "output", tickNo), "timecode", TimecodeString(timecode)),
                     "timecode/source", tickNo)
    /\ pc' = "callback"
    /\ UNCHANGED <<calls, tickLimit, lockVars, viewVars, tickNo, format_desc, nb_samples, stage_frames, timecode,
                   listeners, pendingL, frames, remaining, chanHold, fmtVars,
                   routeVars, lsnVars, collabVars, callerVars, abort_request_,
                   failedAt, prevFailed, invoked, signals, deadAtFan,
                   stageCall, mixCall, outCall, published, cbCount, nbHist,
                   snapEpoch, heldAtSnap>>

\* tick_(state_)
Callback ==
    /\ pc = "callback"
    /\ published' = state_
    /\ cbCount' = cbCount + 1
    /\ \E ok \in Outcomes :
          /\ calls' = Spend(ok)
          /\ IF ok
             THEN pc' = "check" /\ UNCHANGED failedAt
             ELSE Caught("publish")
    /\ UNCHANGED <<tickLimit, lockVars, viewVars, tickNo, format_desc, nb_samples, stage_frames, timecode,
                   listeners, pendingL, frames, remaining, chanHold, fmtVars,
                   routeVars, lsnVars, collabVars, callerVars, abort_request_,
                   state_, trace, prevFailed, invoked, signals, deadAtFan,
                   stageCall, mixCall, outCall, nbHist, snapEpoch, heldAtSnap>>

\* ------------------------------------------------------------------ callers
\* mutant: route() takes the format lock inside the routes lock
RouteLocksFormatToo == <<"routes", "format">>

\* the locks route() holds while it runs, in the order it takes them
RouteLocks == <<"routes">>

\* mutant: route() never finds the stored route
ExistingNone(k) == NoRoute

\* auto route = routes_[index].lock()
Existing(k) == Upgrade(routes_[k])

\* route(index): returns the living route of the id or creates one
Route(k) ==
    /\ dtorPc = "idle"
    /\ routesLock = "none"
    /\ (\E i \in DOMAIN RouteLocks : RouteLocks[i] = "format")
          => formatLock = "none"
    /\ nested' = (nested \/ LocksHeld("caller") # {} \/ Len(RouteLocks) > 1)
    /\ LET r == Existing(k)
       IN  IF r # NoRoute
           THEN /\ extRefs[r] < MaxRefs
                /\ extRefs' = [extRefs EXCEPT ![r] = @ + 1]
                /\ UNCHANGED <<routes_, nextRoute, routeFd>>
           ELSE /\ nextRoute < MaxRoutes
                /\ nextRoute' = nextRoute + 1
                /\ routes_' = [routes_ EXCEPT ![k] = nextRoute']
                /\ extRefs' = [extRefs EXCEPT ![nextRoute'] = 1]
                /\ \E fd \in (IF formatLock = "setter" THEN Formats
                                                       ELSE {format_desc_}) :
                      routeFd' = [routeFd EXCEPT ![nextRoute'] = fd]
    /\ calls > 0
    /\ calls' = calls - 1
    /\ UNCHANGED <<tickLimit, listenersLock, viewVars, loopVars, fmtVars,
                   routesLock, lsnVars, collabVars, callerVars, obsVars,
                   abort_request_, state_>>

\* a holder of a route drops its std::shared_ptr<core::route>
DropRoute(r) ==
    /\ extRefs[r] > 0
    /\ extRefs' = [extRefs EXCEPT ![r] = @ - 1]
    /\ calls > 0
    /\ calls' = calls - 1
    /\ UNCHANGED <<tickLimit, lockVars, viewVars, loopVars, fmtVars, routes_, routesLock, nextRoute, routeFd,
                   lsnVars, collabVars, callerVars, obsVars, abort_request_,
                   state_>>

\* add_timecode_listener(listener)
AddListener ==
    /\ dtorPc = "idle"
    /\ last_timecode_listener_id < MaxListeners
    /\ LET listener_id == last_timecode_listener_id
       IN  /\ last_timecode_listener_id' = last_timecode_listener_id + 1
           /\ timecode_listeners_' = timecode_listeners_ \cup {listener_id}
           /\ tokens' = tokens \cup {listener_id}
    /\ calls > 0
    /\ calls' = calls - 1
    /\ listenersLock = "none"
    /\ Acquire("caller")
    /\ UNCHANGED <<tickLimit, listenersLock, viewVars, loopVars, fmtVars, routeVars, collabVars, callerVars,
                   obsVars, abort_request_, state_>>

\* mutant: dropping the token leaves the listener in the map
DropTokenNoErase(id) ==
    /\ dtorPc = "idle"
    /\ id \in tokens
    /\ tokens' = tokens \ {id}
    /\ timecode_listeners_' = timecode_listeners_
    /\ calls > 0
    /\ calls' = calls - 1
    /\ listenersLock = "none"
    /\ Acquire("caller")
    /\ UNCHANGED <<tickLimit, listenersLock, viewVars, loopVars, fmtVars, routeVars, last_timecode_listener_id,
                   collabVars, callerVars, obsVars, abort_request_, state_>>

\* the deleter of the token: timecode_listeners_.erase(listener_id)
DropToken(id) ==
    /\ dtorPc = "idle"
    /\ id \in tokens
    /\ tokens' = tokens \ {id}
    /\ timecode_listeners_' = timecode_listeners_ \ {id}
    /\ calls > 0
    /\ calls' = calls - 1
    /\ listenersLock = "none"
    /\ Acquire("caller")
    /\ UNCHANGED <<tickLimit, listenersLock, viewVars, loopVars, fmtVars, routeVars, last_timecode_listener_id,
                   collabVars, callerVars, obsVars, abort_request_, state_>>

\* a command loads a producer on a layer of the stage
StageLoad(k) ==
    /\ dtorPc = "idle"
    /\ k \notin stageLayers
    /\ stageLayers' = stageLayers \cup {k}
    /\ calls > 0
    /\ calls' = calls - 1
    /\ UNCHANGED <<tickLimit, lockVars, viewVars, loopVars, fmtVars, routeVars, lsnVars, tcCommitted,
                   tcPredicted, tcFormat, stageClears, callerVars, obsVars,
                   abort_request_, state_>>

\* video_format_desc(format_desc): lock_guard, format_desc_ = format_desc
SetterWriteFd(fd) ==
    /\ dtorPc = "idle"
    /\ setterPc = "idle"
    /\ Len(setLog) < MaxFormatChanges
    /\ formatLock = "none"
    /\ formatLock' = "setter"
    /\ new_fd' = fd
    /\ format_desc_' = fd
    /\ setterPc' = "cadence"
    /\ calls > 0
    /\ calls' = calls - 1
    /\ Acquire("setter")
    /\ UNCHANGED <<tickLimit, listenersLock, viewVars, loopVars, audio_cadence_, routeVars, lsnVars, collabVars,
                   setLog, dtorPc, obsVars, abort_request_, state_>>

\* mutant: the owned cadence vector is not replaced
SetterKeepsCadence ==
    /\ setterPc = "cadence"
    /\ audio_cadence_' = audio_cadence_
    /\ tcFormat' = new_fd
    /\ nbHist' = <<>>
    /\ setterPc' = "clear"
    /\ UNCHANGED <<calls, tickLimit, lockVars, viewVars, loopVars, format_desc_, formatLock,
                   routeVars, lsnVars, tcCommitted, tcPredicted, stageLayers,
                   stageClears, new_fd, setLog, dtorPc, abort_request_, state_,
                   trace, failedAt, prevFailed, invoked, signals, deadAtFan,
                   stageCall, mixCall, outCall, published, cbCount, snapEpoch, heldAtSnap>>

\* audio_cadence_ = format_desc_.audio_cadence;
\* timecode_->change_format(format_desc)
SetterWriteCadence ==
    /\ setterPc = "cadence"
    /\ audio_cadence_' = AudioCadence(format_desc_)
    /\ tcFormat' = new_fd
    /\ nbHist' = <<>>
    /\ setterPc' = "clear"
    /\ UNCHANGED <<calls, tickLimit, lockVars, viewVars, loopVars, format_desc_, formatLock,
                   routeVars, lsnVars, tcCommitted, tcPredicted, stageLayers,
                   stageClears, new_fd, setLog, dtorPc, abort_request_, state_,
                   trace, failedAt, prevFailed, invoked, signals, deadAtFan,
                   stageCall, mixCall, outCall, published, cbCount, snapEpoch, heldAtSnap>>

\* stage_->clear(); the setter returns and the lock_guard releases the lock
SetterClear ==
    /\ setterPc = "clear"
    /\ stageLayers' = {}
    /\ stageClears' = stageClears + 1
    /\ setLog' = Append(setLog, new_fd)
    /\ formatLock' = "none"
    /\ setterPc' = "idle"
    /\ UNCHANGED <<calls, tickLimit, lockVars, viewVars, loopVars, format_desc_, audio_cadence_, routeVars, lsnVars,
                   tcCommitted, tcPredicted, tcFormat, new_fd, dtorPc,
                   obsVars, abort_request_, state_>>

\* ~impl(): abort_request_ = true
DtorAbort ==
    /\ dtorPc = "idle"
    /\ setterPc = "idle"
    /\ abort_request_' = TRUE
    /\ dtorPc' = "join"
    /\ calls > 0
    /\ calls' = calls - 1
    /\ UNCHANGED <<tickLimit, lockVars, viewVars, loopVars, fmtVars, routeVars, lsnVars, collabVars,
                   setterPc, new_fd, setLog, obsVars, state_>>

\* ~impl(): thread_.join() returns once the loop thread has ended
DtorJoin ==
    /\ dtorPc = "join"
    /\ pc = "done"
    /\ dtorPc' = "joined"
    /\ UNCHANGED <<calls, tickLimit, lockVars, viewVars, loopVars, fmtVars, routeVars, lsnVars, collabVars,
                   setterPc, new_fd, setLog, obsVars, abort_request_, state_>>

\* state(): returns a reference to state_, which the caller then reads
\* while the channel thread clears and refills the same object
GetState ==
    /\ dtorPc = "idle"
    /\ stateSeen' = [at |-> pc, entries |-> state_, pub |-> published # {}]
    /\ calls > 0
    /\ calls' = calls - 1
    /\ UNCHANGED <<tickLimit, lockVars, fmtSeen, reentry, loopVars, fmtVars,
                   routeVars, lsnVars, collabVars, callerVars, obsVars,
                   abort_request_, state_>>

\* video_format_desc() const: a copy of format_desc_ made under the format
\* lock; print() reads the format through this getter
GetFormat ==
    /\ dtorPc = "idle"
    /\ formatLock = "none"
    /\ Acquire("caller")
    /\ fmtSeen' = format_desc_
    /\ calls > 0
    /\ calls' = calls - 1
    /\ UNCHANGED <<tickLimit, listenersLock, stateSeen, reentry, loopVars,
                   fmtVars, routeVars, lsnVars, collabVars, callerVars,
                   obsVars, abort_request_, state_>>

Loop ==
    \/ LoopCheck \/ TickSnapshot \/ StateClear \/ Predict \/ Produce
    \/ Commit \/ ListenersSnapshot \/ InvokeListener \/ Mix \/ Consume
    \/ FanBegin \/ FanLayer \/ FanSignal \/ FanAll \/ FanSignalAll \/ FanEnd
    \/ Publish \/ Callback

Next ==
    \/ Loop
    \/ \E k \in RequestedKeys : Route(k)
    \/ \E r \in RouteIds : DropRoute(r)
    \/ AddListener
    \/ \E id \in ListenerIds : DropToken(id)
    \/ \E k \in Layers : StageLoad(k)
    \/ \E fd \in Formats : SetterWriteFd(fd)
    \/ SetterWriteCadence \/ SetterClear
    \/ DtorAbort \/ DtorJoin

Spec == Init /\ [][Next]_vars

CadenceSpec == CadenceInit /\ [][Next]_vars

\* the same operations over several ticks
ShortSpec == LiveInit /\ [][Next]_vars

\* the loop thread keeps running and a joining destructor is resumed
FairSpec ==
    LiveInit /\ [][Next]_vars /\ WF_vars(Loop) /\ WF_vars(DtorJoin)

\* the channel with callers that read the monitor state and the format, and
\* with listeners that change the listener map when they are invoked
NextAll == Next \/ GetState \/ GetFormat \/ InvokeListenerReentrant

AllSpec == AllInit /\ [][NextAll]_vars

\* ------------------------------------------------------------------ claims
Range(f) == {f[i] : i \in DOMAIN f}
Last(s) == s[Len(s)]
InvokedIds == {invoked[i].id : i \in DOMAIN invoked}
SignalsTo(r) == SelectSeq(signals, LAMBDA sg : sg.route = r)

\* the frames of a producer map in the iteration order of std::map
RECURSIVE FramesOf(_, _)
FramesOf(M, keys) ==
    IF keys = {} THEN <<>>
    ELSE LET k == Min(keys) IN <<M[k]>> \o FramesOf(M, keys \ {k})

TickEnded == pc \in {"check", "done"} /\ tickNo > 0
TickEndedOk == TickEnded /\ failedAt = "none"

\* C1: in a tick that raises no failure the steps rotate, predict, produce,
\* commit, listeners, mix, consume, routes, publish run exactly once each and
\* in this order; at any moment the steps begun so far are a prefix of it.
C1_StepOrder ==
    /\ IsPrefix(trace, StepOrder)
    /\ TickEndedOk => trace = StepOrder

C1_Witness ==
    /\ pc = "check" /\ failedAt = "none" /\ trace = StepOrder
    /\ invoked # <<>> /\ signals # <<>> /\ cbCount = 1

\* C2: listeners are invoked in ascending id order: of two listeners of the
\* snapshot, the one with the smaller id is invoked first.
C2_AscendingOrder ==
    \A i, j \in DOMAIN invoked : i < j => invoked[i].id < invoked[j].id

\* C3: when the fan-out of a tick has run through, every layer of the
\* producer map whose route is registered and alive received exactly one
\* signal, the popped frame of that layer; the channel route, if alive, one
\* signal, the composite of all frames in map order; an unregistered or dead
\* route received nothing, and nobody received more than one signal.
C3_FanOut ==
    pc = "fanend" =>
        /\ \A k \in DOMAIN stage_frames :
              LET r == routes_[k]
              IN  /\ (r # NoRoute /\ extRefs[r] > 0)
                        => SignalsTo(r) = <<[route |-> r,
                                             frame |-> Pop(stage_frames[k])]>>
                  /\ (r = NoRoute \/ r \in deadAtFan)
                        => \A i \in DOMAIN signals :
                              signals[i].frame # Pop(stage_frames[k])
        /\ LET c == routes_[ChannelRoute]
           IN  (c # NoRoute /\ extRefs[c] > 0)
                  => SignalsTo(c) =
                        <<[route |-> c,
                           frame |-> Composite(FramesOf(stage_frames,
                                                        DOMAIN stage_frames))]>>
        /\ \A r \in 1..nextRoute :
              /\ Len(SignalsTo(r)) <= 1
              /\ r \in deadAtFan => SignalsTo(r) = <<>>
        /\ \A i \in DOMAIN signals :
              \E k \in DOMAIN stage_frames \cup {ChannelRoute} :
                 routes_[k] = signals[i].route
        /\ failedAt = "none"

C3_Witness ==
    /\ pc = "fanend"
    /\ DOMAIN stage_frames = {0, 1}
    /\ routes_[0] # NoRoute /\ routes_[1] = NoRoute
    /\ routes_[ChannelRoute] # NoRoute
    /\ signals = <<[route |-> routes_[0], frame |-> Pop("A")],
                   [route |-> routes_[ChannelRoute],
                    frame |-> Composite(<<"A", "B">>)]>>


\* a is b rotated by some number of positions
IsRotation(a, b) ==
    /\ Len(a) = Len(b)
    /\ \E d \in 0..(Len(b) - 1) :
          \A i \in 1..Len(b) : a[i] = b[((i - 1 + d) % Len(b)) + 1]

Count(s, x) == Cardinality({i \in DOMAIN s : s[i] = x})
IsPermutation(a, b) ==
    /\ Len(a) = Len(b)
    /\ \A x \in Range(a) \cup Range(b) : Count(a, x) = Count(b, x)

\* C4: a tick whose snapshot follows the return of the setter passes the new
\* format to stage, mixer and output and takes nb_samples from its cadence;
\* when the setter has returned the format, the cadence vector (up to the
\* rotations of later ticks), the timecode format and the stage clear are done.
C4_FormatChange ==
    /\ (trace # <<>> /\ snapEpoch > 0) =>
          LET fd == setLog[snapEpoch]
          IN  /\ format_desc = fd
              /\ nb_samples \in Range(AudioCadence(fd))
              /\ stageCall # NoCall =>
                    /\ stageCall.fd = fd
                    /\ stageCall.nb \in Range(AudioCadence(fd))
              /\ mixCall # NoCall => mixCall.fd = fd
              /\ outCall # NoCall => outCall.fd = fd
    /\ (setterPc = "idle" /\ setLog # <<>>) =>
          /\ format_desc_ = Last(setLog)
          /\ IsRotation(audio_cadence_, AudioCadence(Last(setLog)))
          /\ tcFormat = Last(setLog)
          /\ stageClears = Len(setLog)

C4_Witness ==
    /\ setLog = <<"PAL">> /\ snapEpoch = 1
    /\ pc = "check" /\ trace = StepOrder
    /\ stageCall = [fd |-> "PAL", nb |-> 1920, tc |-> 0]
    /\ mixCall.fd = "PAL" /\ outCall.fd = "PAL"
    /\ stageClears = 1

\* C5: a failing step ends its tick there: no later step has run, the tick
\* callback has not been called unless it is the failing step, the loop holds
\* no lock and no route; the thread ends only on abort, and every tick, also
\* the one after a failure, starts with the cadence rotation.
C5_FailureEndsTick ==
    /\ failedAt # "none" =>
          /\ pc \in {"check", "done"}
          /\ trace # <<>> /\ IsPrefix(trace, StepOrder)
          /\ Last(trace) = failedAt
          /\ failedAt # "publish" => cbCount = 0
          /\ routesLock # "loop" /\ formatLock # "loop"
          /\ chanHold = NoRoute
    /\ pc = "done" => abort_request_
    /\ trace # <<>> => trace[1] = "rotate"
    /\ (prevFailed /\ TickEndedOk) => trace = StepOrder

C5_Witness ==
    /\ prevFailed /\ tickNo = 2
    /\ pc = "check" /\ failedAt = "none" /\ trace = StepOrder /\ cbCount = 1

\* C6: with the abort flag set no tick begins; the thread leaves the loop only
\* at the loop condition, so a tick in flight runs to its end; and the join of
\* the destructor eventually returns.
C6_Abort ==
    /\ [][abort_request_ => tickNo' = tickNo]_vars
    /\ [][(pc # "done" /\ pc' = "done") => (pc = "check" /\ abort_request_)]_vars
    /\ (abort_request_ ~> dtorPc = "joined")

C6_Witness ==
    /\ abort_request_ /\ dtorPc = "join" /\ pc = "consume"

\* C7: a listener is invoked at most once per tick and with the committed
\* timecode; when the listener step is over, the listeners invoked are exactly
\* those whose token was held when the snapshot was taken: a listener whose
\* token was dropped before is not among them, the others all are.
C7_ListenerLifecycle ==
    /\ InvokedIds \subseteq heldAtSnap
    /\ \A i, j \in DOMAIN invoked : i # j => invoked[i].id # invoked[j].id
    /\ \A i \in DOMAIN invoked : invoked[i].tc = tcCommitted
    /\ "mix" \in Range(trace) => InvokedIds = heldAtSnap

C7_Witness ==
    /\ tickNo = 2 /\ pc = "consume"
    /\ last_timecode_listener_id = 2 /\ tokens = {1}
    /\ invoked = <<[id |-> 1, tc |-> 2, ok |-> TRUE]>>

\* C8: a failing listener does not end the listener step or the tick: the
\* other listeners of the snapshot are invoked, and a tick in which only
\* listeners failed runs mix, consume, routes and publish.
C8_ListenerFailure ==
    /\ failedAt # "listeners"
    /\ (pendingL # {} /\ invoked # <<>>) => pc = "invoke"
    /\ "mix" \in Range(trace) => InvokedIds = listeners
    /\ ((\E i \in DOMAIN invoked : ~invoked[i].ok) /\ TickEndedOk) =>
          /\ {"mix", "consume", "routes", "publish"} \subseteq Range(trace)
          /\ cbCount = 1

C8_Witness ==
    /\ pc = "check" /\ failedAt = "none" /\ trace = StepOrder
    /\ Len(invoked) = 2 /\ ~invoked[1].ok /\ invoked[2].ok
    /\ cbCount = 1

\* C9: the snapshot of a loop iteration moves the last element of the cadence
\* vector to the front and takes it as nb_samples, which the stage receives;
\* the nb_samples of len(cadence) iterations in a row without a format change
\* are a permutation of the cadence of the format and add up to its sum.
C9_Period ==
    /\ (formatLock = "none" /\ Len(nbHist) = Len(audio_cadence_)) =>
          /\ SeqSum(nbHist) = SeqSum(AudioCadence(format_desc_))
          /\ IsPermutation(nbHist, AudioCadence(format_desc_))
    /\ stageCall # NoCall => stageCall.nb = nb_samples

C9_Step ==
    (pc = "snapshot" /\ pc' = "clear") =>
        /\ audio_cadence_' = <<Last(audio_cadence_)>>
              \o SubSeq(audio_cadence_, 1, Len(audio_cadence_) - 1)
        /\ nb_samples' = Last(audio_cadence_)

C9_Cadence == []C9_Period /\ [][C9_Step]_vars

C9_Witness ==
    /\ tickNo = 5 /\ pc = "commit"
    /\ nbHist = <<1602, 1601, 1602, 1601, 1602>>
    /\ SeqSum(nbHist) = 8008
    /\ stageCall.nb = 1602

\* C10: the loop holds a strong reference to a route only between the weak
\* upgrade and the return of that route's signal, with the routes lock held;
\* a route without external holder is dead outside that window, and a route
\* that was dead when a fan-out began is not signalled in it.
C10_NoRetention ==
    /\ chanHold # NoRoute =>
          (pc \in {"signal", "signalall"} /\ routesLock = "loop")
    /\ \A r \in 1..nextRoute :
          (extRefs[r] = 0 /\ pc \notin {"signal", "signalall"}) => ~Alive(r)
    /\ \A i \in DOMAIN signals : signals[i].route \notin deadAtFan

C10_Witness ==
    /\ pc = "fanend"
    /\ routes_[0] # NoRoute
    /\ extRefs[routes_[0]] = 0
    /\ SignalsTo(routes_[0]) # <<>>


\* some caller holds a strong reference to the route stored for the id
HeldByCaller(k) == routes_[k] # NoRoute /\ extRefs[routes_[k]] > 0

\* C11: while a caller holds the route of an id, no step replaces the stored
\* route and every route(id) returns that same object without creating one;
\* route(id) creates a new object, stored weakly and owned by the caller
\* alone, only when no route is stored for the id or the stored one is dead.
C11_RouteStep ==
    /\ \A k \in RouteKeys : HeldByCaller(k) => routes_'[k] = routes_[k]
    /\ \A k \in RouteKeys : Route(k) =>
          IF HeldByCaller(k)
          THEN /\ extRefs' = [extRefs EXCEPT ![routes_[k]] = @ + 1]
               /\ UNCHANGED <<routes_, nextRoute>>
          ELSE /\ ~Alive(routes_[k])
               /\ nextRoute' = nextRoute + 1
               /\ routes_' = [routes_ EXCEPT ![k] = nextRoute']
               /\ extRefs[nextRoute'] = 0
               /\ extRefs' = [extRefs EXCEPT ![nextRoute'] = 1]
C11_RouteIdempotent == [][C11_RouteStep]_vars

\* route() was called twice for an id while the first caller held the route:
\* one object exists, both callers hold it and the fan-out has signalled it
C11_Witness ==
    /\ nextRoute = 1
    /\ \E k \in RouteKeys : routes_[k] = 1 /\ extRefs[1] = 2
    /\ SignalsTo(1) # <<>>

\* C12: ticks do not overlap: a tick begins only from the loop condition,
\* when no listener of the previous tick is left to invoke, no route signal
\* is in progress and the routes lock is released; the committed timecode
\* never goes back and every listener invocation delivers the timecode of
\* the latest commit, so listeners see the timecodes in commit order.
C12_TickStep ==
    /\ tickNo' # tickNo =>
          /\ tickNo' = tickNo + 1
          /\ pc = "check" /\ pc' = "snapshot"
          /\ pendingL = {}
          /\ chanHold = NoRoute
          /\ routesLock # "loop"
    /\ tcCommitted' >= tcCommitted
    /\ tcCommitted' # tcCommitted => tickNo' = tickNo /\ invoked = <<>>
    /\ (invoked' # invoked /\ invoked' # <<>>) =>
          /\ tickNo' = tickNo
          /\ Last(invoked').tc = tcCommitted
          /\ \A i \in DOMAIN invoked : invoked[i].tc <= Last(invoked').tc
    /\ signals' # signals => tickNo' = tickNo \/ signals' = <<>>
C12_NoOverlap == [][C12_TickStep]_vars

\* the second of two ticks, both with listener invocations and route signals
C12_Witness ==
    /\ tickNo = 2 /\ ~prevFailed
    /\ tcCommitted = 2
    /\ invoked # <<>> /\ invoked[1].tc = 2
    /\ signals # <<>>
    /\ pc = "check"


\* the keys a published monitor state holds
StateKeys == {"stage", "mixer", "output", "timecode", "timecode/source"}

\* st is the state one tick n built: every key once, the collaborators'
\* entries all of tick n
IsTickState(st, n) ==
    /\ {e[1] : e \in st} = StateKeys
    /\ Cardinality(st) = Cardinality(StateKeys)
    /\ \A e \in st : e[1] # "timecode" => e[2] = n

\* C13: what a caller of state() reads, once a tick has been published, is
\* the complete monitor state of one tick, never a cleared or partly
\* rebuilt one.
C13_StateSnapshot ==
    stateSeen.pub => \E n \in 1..tickLimit : IsTickState(stateSeen.entries, n)


\* C14: the sample count the mixer receives in a tick is the tick's
\* nb_samples, the front of the rotated owned cadence, which the stage
\* received in the same tick.
C14_MixerSamples ==
    mixCall # NoCall =>
        /\ mixCall.nb = nb_samples
        /\ mixCall.nb = stageCall.nb


\* C15: the listeners lock is free whenever a listener can run, so a listener
\* that adds a listener or drops a token from inside its invocation is not
\* blocked; the tick invokes the listeners of its snapshot, each once, and no
\* other, whatever happens to the map meanwhile; the next snapshot is the
\* map as changed.
C15_LockFree ==
    /\ pc = "invoke" => listenersLock = "none"
    /\ (pc = "invoke" /\ pendingL # {} /\ tokens # {} /\ calls > 0)
          => ENABLED InvokeListenerReentrant
    /\ pc = "invoke" =>
          /\ InvokedIds \cup pendingL = listeners
          /\ InvokedIds \cap pendingL = {}
          /\ Len(invoked) = Cardinality(InvokedIds)
    /\ "mix" \in Range(trace) =>
          /\ InvokedIds = listeners
          /\ Len(invoked) = Cardinality(listeners)
C15_SnapshotStep ==
    /\ (pc = "listeners" /\ pc' = "invoke") => listeners' = timecode_listeners_
    /\ (pc = "invoke" /\ tickNo' = tickNo) => listeners' = listeners
C15_Reentrancy == []C15_LockFree /\ [][C15_SnapshotStep]_vars

\* a listener of the first tick added a listener from inside its invocation:
\* that tick invoked the one listener of its snapshot, the second tick's
\* snapshot holds both
C15_Witness ==
    /\ reentry = "add"
    /\ tickNo = 2 /\ ~prevFailed
    /\ pc = "invoke" /\ invoked = <<>>
    /\ listeners = {0, 1}


\* C16: the format lock guards the format descriptor and the owned cadence:
\* no operation (tick snapshot, getter, route()) reads them and no operation
\* but the setter writes them while the setter holds the lock.
C16_GuardedStep ==
    /\ \A r \in RouteIds : routeFd'[r] # routeFd[r] => formatLock # "setter"
    /\ format_desc' \notin {format_desc, "none"} => formatLock # "setter"
    /\ fmtSeen' # fmtSeen => formatLock # "setter"
    /\ (format_desc_' # format_desc_ \/ audio_cadence_' # audio_cadence_) =>
          \/ formatLock = "setter" \/ formatLock' = "setter"
          \/ (pc = "snapshot" /\ formatLock = "none")
C16_FormatGuarded == [][C16_GuardedStep]_vars


\* C17: within a tick the timecode the commit returned is the one value in
\* use: every listener of the tick, the output and the "timecode" entry of
\* the monitor state (also as handed to the callback) get it, whatever
\* format change or later prediction happens meanwhile.
C17_OneTimecode ==
    /\ ("commit" \in Range(trace) /\ failedAt # "commit") =>
          timecode = tcCommitted
    /\ \A i \in DOMAIN invoked : invoked[i].tc = timecode
    /\ outCall # NoCall => outCall.tc = timecode
    /\ "publish" \in Range(trace) =>
          \A e \in state_ :
              e[1] = "timecode" <=> e = <<"timecode", TimecodeString(timecode)>>
    /\ "publish" \in Range(trace) =>
          <<"timecode", TimecodeString(timecode)>> \in state_
    /\ cbCount > 0 => <<"timecode", TimecodeString(timecode)>> \in published

\* a tick ran to its end with a listener invoked, the output called and the
\* state published, while the format was changed during the tick
C17_Witness ==
    /\ TickEndedOk /\ tickNo = 2
    /\ invoked # <<>> /\ invoked[1].tc = 2
    /\ outCall.tc = 2
    /\ <<"timecode", TimecodeString(2)>> \in published
    /\ setLog # <<>> /\ snapEpoch = 0


\* C18: the monitor state is rebuilt in every tick: it is empty after the
\* clear at the start of the tick and from then on holds entries of this
\* tick only; the callback runs after the fan-out, at most once in a tick
\* and exactly once in a tick without failure, and receives exactly the
\* entries stage, mixer, output, timecode and timecode/source of this tick.
C18_Rebuilt ==
    /\ pc = "predict" => state_ = {}
    /\ (trace # <<>> /\ pc \notin {"snapshot", "clear"}) =>
          \A e \in state_ : e[1] \in StateKeys /\ (e[1] # "timecode" => e[2] = tickNo)
    /\ cbCount <= 1
    /\ cbCount = 1 =>
          /\ IsTickState(published, tickNo)
          /\ published = state_
          /\ "routes" \in Range(trace) /\ Last(trace) = "publish"
          /\ pc \in {"check", "done"}
    /\ TickEndedOk => cbCount = 1
    /\ failedAt \notin {"none", "publish"} => cbCount = 0

\* the tick after a failed tick ended without failure: its callback got the
\* five entries of this tick
C18_Witness ==
    /\ TickEndedOk /\ tickNo = 2 /\ prevFailed
    /\ cbCount = 1
    /\ published = {<<"stage", 2>>, <<"mixer", 2>>, <<"output", 2>>,
                    <<"timecode", TimecodeString(tcCommitted)>>,
                    <<"timecode/source", 2>>}


\* C19: whenever the format lock is free the owned cadence is a cyclic
\* rotation of the audio cadence of the current format descriptor; the
\* sample count the stage receives in a tick is an element of the audio
\* cadence of the format descriptor it receives in that tick.
C19_CadenceOfFormat ==
    /\ formatLock = "none" =>
          IsRotation(audio_cadence_, AudioCadence(format_desc_))
    /\ nb_samples # 0 => nb_samples \in Range(AudioCadence(format_desc))
    /\ stageCall # NoCall =>
          stageCall.nb \in Range(AudioCadence(stageCall.fd))

\* the first tick ran with the initial format, the format was changed, and
\* the stage of the second tick received the new format with its count
C19_Witness ==
    /\ tickNo = 2 /\ snapEpoch = 1
    /\ setLog = <<"PAL">> /\ formatLock = "none"
    /\ audio_cadence_ = <<1920>>
    /\ stageCall.fd = "PAL" /\ stageCall.nb = 1920
    /\ published # {} /\ ~prevFailed


\* C20: no operation of the channel locks one of the three locks (format,
\* routes, listeners) while it holds another one: no lock was ever taken by
\* a thread that held a lock, and no thread holds two locks at once.
C20_NoNestedLocks ==
    /\ ~nested
    /\ \A t \in {"loop", "setter", "caller"} : Cardinality(LocksHeld(t)) <= 1

\* the channel thread holds the routes lock in its fan-out, after a listener
\* took the listeners lock from inside its invocation in the same tick
C20_Witness ==
    /\ routesLock = "loop"
    /\ reentry # "none"
    /\ invoked # <<>>
    /\ listeners # timecode_listeners_

====
